---- MODULE Spec2Model ----
(***************************************************************************)
(* RustJin (src/main.rs): the process-wide Metrics registry and the        *)
(* handlers that update it.  Every request is one task; each atomic        *)
(* operation on the shared Metrics (a fetch_add, a load, one critical      *)
(* section of the endpoint_stats mutex) is one step, and the tasks'        *)
(* steps interleave freely.  Text is a sequence of one-character strings.  *)
(***************************************************************************)
EXTENDS Integers, Sequences, FiniteSets, TLC

VARIABLES
    total_requests,          \* Metrics.total_requests          (AtomicU64)
    successful_requests,     \* Metrics.successful_requests     (AtomicU64)
    failed_requests,         \* Metrics.failed_requests         (AtomicU64)
    redirects_blocked,       \* Metrics.redirects_blocked       (AtomicU64)
    delays_blocked,          \* Metrics.delays_blocked          (AtomicU64)
    bytes_blocked,           \* Metrics.bytes_blocked           (AtomicU64)
    dangerous_urls_blocked,  \* Metrics.dangerous_urls_blocked  (AtomicU64)
    endpoint_stats,          \* Metrics.endpoint_stats: HashMap<String, u64>
    poisoned,                \* whether the endpoint_stats mutex is poisoned
    pc,                      \* each request's position in its handler
    handler,                 \* the handler the router dispatched the request to
    input,                   \* the request's extracted parameters: the number of a
                             \* numeric path parameter, else a position in ParamList
    stats,                   \* get_stats' locals: the fields read so far
    resp,                    \* the response the handler returned
    log                      \* the Metrics calls each request has made, in order

vars == << total_requests, successful_requests, failed_requests,
           redirects_blocked, delays_blocked, bytes_blocked,
           dangerous_urls_blocked, endpoint_stats, poisoned,
           pc, handler, input, stats, resp, log >>

counters == << total_requests, successful_requests, failed_requests,
               redirects_blocked, delays_blocked, bytes_blocked,
               dangerous_urls_blocked >>

(* Requests in the model: each is handled once. *)
NReq == 2
Req == 1..NReq

(* ------------------------------------------------------------------ *)
(* Program constants                                                   *)
(* ------------------------------------------------------------------ *)
MAX_REDIRECTS == 10
MAX_DELAY == 10
MAX_BYTES == 100000
MAX_LINES == 100
MAX_URL_LEN == 2048

(* ------------------------------------------------------------------ *)
(* Text helpers                                                        *)
(* ------------------------------------------------------------------ *)
RECURSIVE Join(_)
Join(s) == IF s = <<>> THEN "" ELSE Head(s) \o Join(Tail(s))

starts_with(s, p) == Len(s) >= Len(p) /\ SubSeq(s, 1, Len(p)) = p

(* The printable ASCII characters, 0x20..0x7E, in code order (the grave   *)
(* accent, which a TLA+ string cannot hold, by its code point).        *)
AsciiPrintable ==
    << " ", "!", "\"", "#", "$", "%", "&", "'", "(", ")", "*", "+", ",", "-", ".", "/",
       "0", "1", "2", "3", "4", "5", "6", "7", "8", "9", ":", ";", "<", "=", ">", "?",
       "@", "A", "B", "C", "D", "E", "F", "G", "H", "I", "J", "K", "L", "M", "N", "O",
       "P", "Q", "R", "S", "T", "U", "V", "W", "X", "Y", "Z", "[", "\\", "]", "^", "_",
       "U+0060", "a", "b", "c", "d", "e", "f", "g", "h", "i", "j", "k", "l", "m", "n", "o",
       "p", "q", "r", "s", "t", "u", "v", "w", "x", "y", "z", "{", "|", "}", "~" >>

(* Every character's code: printable ASCII and the control characters *)
(* the model's inputs use.                                             *)
Codes ==
    [c \in {AsciiPrintable[i] : i \in DOMAIN AsciiPrintable} \cup {"\t", "\n", "\f", "\r"} |->
        CASE c = "\t" -> 9
          [] c = "\n" -> 10
          [] c = "\f" -> 12
          [] c = "\r" -> 13
          [] OTHER -> 31 + (CHOOSE i \in DOMAIN AsciiPrintable : AsciiPrintable[i] = c)]

code(c) == Codes[c]

(* str::as_bytes of an ASCII text. *)
as_bytes(s) == [i \in DOMAIN s |-> code(s[i])]

(* char::is_whitespace, on the characters of the model. *)
is_whitespace(c) == c \in {" ", "\t", "\n", "\f", "\r"}

(* str::trim: leading and trailing whitespace removed. *)
trim(s) ==
    LET n == Len(s)
        lead == CHOOSE k \in 0..n :
                    /\ \A j \in 1..k : is_whitespace(s[j])
                    /\ k < n => ~is_whitespace(s[k + 1])
        trail == CHOOSE k \in 0..(n - lead) :
                    /\ \A j \in 0..(k - 1) : is_whitespace(s[n - j])
                    /\ k < n - lead => ~is_whitespace(s[n - k])
    IN  SubSeq(s, lead + 1, n - trail)

(* char::to_lowercase, on ASCII: 'A'..'Z' become 'a'..'z'. *)
Lowercase ==
    [c \in DOMAIN Codes |->
        IF Codes[c] >= 65 /\ Codes[c] <= 90
        THEN AsciiPrintable[Codes[c] + 32 - 31]
        ELSE c]

(* str::to_lowercase *)
to_lowercase(s) == [i \in DOMAIN s |-> Lowercase[s[i]]]

(* str::len: the length in bytes; the model's texts are ASCII. *)
len(s) == Len(s)

(* HeaderValue::from_str (str::parse): every byte is >= 32 and not 127, *)
(* or a tab.                                                           *)
header_value_parses(s) ==
    \A i \in DOMAIN s :
        \/ code(s[i]) = 9
        \/ (code(s[i]) >= 32 /\ code(s[i]) # 127)

(* HeaderValue::to_str: Ok when every byte is visible ASCII or a tab. *)
to_str_ok(s) ==
    \A i \in DOMAIN s :
        \/ code(s[i]) = 9
        \/ (code(s[i]) >= 32 /\ code(s[i]) < 127)

(* The value of a symbol of the standard base64 alphabet, or -1. *)
b64_value(c) ==
    LET x == code(c)
    IN  CASE x >= 65 /\ x <= 90 -> x - 65
          [] x >= 97 /\ x <= 122 -> x - 71
          [] x >= 48 /\ x <= 57 -> x + 4
          [] x = 43 -> 62
          [] x = 47 -> 63
          [] OTHER -> -1

(* general_purpose::STANDARD.decode: canonical padding is required and *)
(* the unused trailing bits must be zero.                              *)
b64_decode(s) ==
    LET n == Len(s)
        pad == IF n >= 2 /\ s[n] = "=" /\ s[n - 1] = "=" THEN 2
               ELSE IF n >= 1 /\ s[n] = "=" THEN 1 ELSE 0
        v(i) == IF i <= n - pad THEN b64_value(s[i]) ELSE 0
        nbytes == (n \div 4) * 3 - pad
        byte(j) ==
            LET g == 4 * ((j - 1) \div 3)
                k == (j - 1) % 3
            IN  CASE k = 0 -> v(g + 1) * 4 + v(g + 2) \div 16
                  [] k = 1 -> (v(g + 2) % 16) * 16 + v(g + 3) \div 4
                  [] k = 2 -> (v(g + 3) % 4) * 64 + v(g + 4)
        ok == /\ n % 4 = 0
              /\ \A i \in 1..(n - pad) : b64_value(s[i]) >= 0
              /\ pad = 1 => v(n - 1) % 4 = 0
              /\ pad = 2 => v(n - 2) % 16 = 0
    IN  IF ok THEN [ok |-> TRUE, bytes |-> [j \in 1..nbytes |-> byte(j)]]
        ELSE [ok |-> FALSE, bytes |-> << >>]

(* String::from_utf8 succeeds: the bytes are well-formed UTF-8. *)
RECURSIVE utf8_valid(_)
utf8_valid(b) ==
    LET cont(x) == x >= 128 /\ x <= 191
        rest(k) == SubSeq(b, k + 1, Len(b))
    IN  IF b = << >> THEN TRUE
        ELSE LET x == b[1] IN
             CASE x < 128 -> utf8_valid(rest(1))
               [] x >= 194 /\ x <= 223 ->
                    Len(b) >= 2 /\ cont(b[2]) /\ utf8_valid(rest(2))
               [] x >= 224 /\ x <= 239 ->
                    /\ Len(b) >= 3
                    /\ cont(b[2]) /\ cont(b[3])
                    /\ x = 224 => b[2] >= 160
                    /\ x = 237 => b[2] <= 159
                    /\ utf8_valid(rest(3))
               [] x >= 240 /\ x <= 244 ->
                    /\ Len(b) >= 4
                    /\ cont(b[2]) /\ cont(b[3]) /\ cont(b[4])
                    /\ x = 240 => b[2] >= 144
                    /\ x = 244 => b[2] <= 143
                    /\ utf8_valid(rest(4))
               [] OTHER -> FALSE

(* str::splitn(2, ':') on bytes: the parts around the first ':'. *)
splitn2(b) ==
    LET at == {i \in DOMAIN b : b[i] = 58}
    IN  IF at = {} THEN << b >>
        ELSE LET i == CHOOSE i \in at : \A j \in at : i <= j
             IN  << SubSeq(b, 1, i - 1), SubSeq(b, i + 1, Len(b)) >>

(* ------------------------------------------------------------------ *)
(* Handlers and the inputs the model sends them                        *)
(* ------------------------------------------------------------------ *)

(* Handlers whose body is: increment_total, record_endpoint(fixed key), *)
(* response construction, increment_success.                           *)
SimpleHandlers ==
    { "handle_health", "handle_logo", "handle_home", "handle_get",
      "handle_post", "handle_put", "handle_patch", "handle_delete",
      "handle_headers", "handle_ip", "handle_user_agent",
      "handle_cookies_get", "handle_json", "handle_html", "handle_xml",
      "handle_image", "handle_image_format", "handle_uuid",
      "handle_anything" }

Handlers ==
    SimpleHandlers \cup
    { "handle_metrics", "handle_status", "handle_delay",
      "handle_cookies_set", "handle_cookies_delete", "handle_basic_auth",
      "handle_bearer_auth", "handle_redirect", "handle_redirect_to",
      "handle_absolute_redirect", "handle_bytes", "handle_stream",
      "handle_base64_decode" }

None == <<>>
Some(v) == <<v>>

(* Redirect-target URLs (RedirectToParams.url), by index. *)
Urls ==
    << <<"j","a","v","a","s","c","r","i","p","t",":","a","l","e","r","t","(","1",")">>,
       <<" ","J","a","v","a","S","c","r","i","p","t",":","x"," ">>,
       <<"D","A","T","A",":",",","x">>,
       <<"\t","f","i","l","e",":","/","e","t","c">>,
       <<"v","b","S","c","r","i","p","t",":","x">>,
       <<"e","x","a","m","p","l","e",".","c","o","m">>,
       <<" ","h","t","t","p",":","/","/","a"," ">>,
       <<"h","t","t","p","s",":","/","/","a">>,
       <<"x",":","j","a","v","a","s","c","r","i","p","t",":">>,
       [i \in 1..MAX_URL_LEN |-> "a"],
       [i \in 1..(MAX_URL_LEN + 1) |-> "a"],
       [i \in 1..(MAX_URL_LEN + 3) |-> IF i = 1 \/ i = MAX_URL_LEN + 3 THEN " " ELSE "a"],
       <<"H","T","T","P",":","/","/","a">> >>

(* Path<u16> of /status/:code. *)
StatusCodes == {99, 200, 404}
(* Path<u64> of /delay/:seconds. *)
DelaySeconds == {0, MAX_DELAY, MAX_DELAY + 1}
(* Path<u32> of /redirect/:n and /absolute-redirect/:n. *)
RedirectDepths == {0, 1, 2, MAX_REDIRECTS, MAX_REDIRECTS + 1}
(* Path<usize> of /bytes/:n. *)
ByteCounts == {0, MAX_BYTES, MAX_BYTES + 1}
(* Path<usize> of /stream/:n. *)
LineCounts == {0, MAX_LINES, MAX_LINES + 1}

(* Query<CookieParams> of /cookies/set: name/value pairs. *)
CookieParamList ==
    << << >>,
       << << <<"a">>, <<"1">> >> >>,
       << << <<"a">>, <<"1">> >>, << <<"b">>, <<"x","\n","y">> >> >> >>

CookieParamSets == {CookieParamList[i] : i \in DOMAIN CookieParamList}

(* params.get("name") of /cookies/delete. *)
CookieNameList == << None, Some(<<"a">>), Some(<<"a","\r","b">>) >>

CookieNames == {CookieNameList[i] : i \in DOMAIN CookieNameList}

(* Path<(String, String)> and the authorization header of /basic-auth. *)
BasicAuthList ==
    << [user |-> <<"u">>, password |-> <<"p">>, authorization |-> None],
       [user |-> <<"u">>, password |-> <<"p">>,
        authorization |-> Some(<<"B","a","s","i","c"," ","d","T","p","w">>)],
       [user |-> <<"u">>, password |-> <<"q">>,
        authorization |-> Some(<<"B","a","s","i","c"," ","d","T","p","w">>)],
       [user |-> <<"u">>, password |-> <<"p">>,
        authorization |-> Some(<<"B","a","s","i","c"," ","!","!">>)] >>

BasicAuthInputs == {BasicAuthList[i] : i \in DOMAIN BasicAuthList}

(* The authorization header of /bearer. *)
BearerList ==
    << None,
       Some(<<"B","e","a","r","e","r"," ","t">>),
       Some(<<"B","a","s","i","c"," ","d","T","p","w">>) >>

BearerInputs == {BearerList[i] : i \in DOMAIN BearerList}

(* Path<String> of /base64/:value. *)
Base64List ==
    << <<"a","G","k","=">>,          \* "hi"
       <<"/","w","=","=">>,          \* the byte 0xFF: not UTF-8
       <<"w","6","k","=">>,          \* 0xC3 0xA9: a two-byte UTF-8 character
       <<"a","G","k">>,              \* padding missing
       <<"!","!","!","!">> >>        \* not in the alphabet

Base64Values == {Base64List[i] : i \in DOMAIN Base64List}

Inputs(h) ==
    CASE h = "handle_status" -> StatusCodes
      [] h = "handle_delay" -> DelaySeconds
      [] h \in {"handle_redirect", "handle_absolute_redirect"} -> RedirectDepths
      [] h = "handle_bytes" -> ByteCounts
      [] h = "handle_stream" -> LineCounts
      [] h = "handle_redirect_to" -> DOMAIN Urls
      [] h = "handle_cookies_set" -> CookieParamSets
      [] h = "handle_cookies_delete" -> CookieNames
      [] h = "handle_basic_auth" -> BasicAuthInputs
      [] h = "handle_bearer_auth" -> BearerInputs
      [] h = "handle_base64_decode" -> Base64Values
      [] OTHER -> { None }

(* The handlers whose parameter is one number (Path<u16>, Path<u64>,   *)
(* Path<u32>, Path<usize>, or the index of the URL in Urls).           *)
NumericHandlers ==
    { "handle_status", "handle_delay", "handle_redirect",
      "handle_absolute_redirect", "handle_bytes", "handle_stream",
      "handle_redirect_to" }

(* The parameters the other handlers are sent, by position. *)
ParamList(h) ==
    CASE h = "handle_cookies_set" -> CookieParamList
      [] h = "handle_cookies_delete" -> CookieNameList
      [] h = "handle_basic_auth" -> BasicAuthList
      [] h = "handle_bearer_auth" -> BearerList
      [] h = "handle_base64_decode" -> Base64List
      [] OTHER -> << >>

(* The values input[r] takes for a request to handler h; 0 when the    *)
(* handler extracts nothing.                                           *)
InputChoices(h) ==
    IF h \in NumericHandlers THEN Inputs(h)
    ELSE IF ParamList(h) # << >> THEN DOMAIN ParamList(h)
    ELSE {0}

(* What the extractors of request r's handler hand to it. *)
arg ==
    [r \in Req |->
        IF handler[r] \in NumericHandlers THEN input[r]
        ELSE IF input[r] \in DOMAIN ParamList(handler[r]) THEN ParamList(handler[r])[input[r]]
        ELSE None]

(* format!("/basic-auth/{}/{}", user, password): the key with the      *)
(* password left in.                                                   *)
basic_auth_key_unmasked(a) ==
    "/basic-auth/" \o Join(a.user) \o "/" \o Join(a.password)

(* format!("/basic-auth/{}/{}", user, "***") *)
basic_auth_key(a) == "/basic-auth/" \o Join(a.user) \o "/" \o "***"

(* The key each handler passes to record_endpoint. *)
EndpointKey(h, a) ==
    CASE h = "handle_metrics" -> "/metrics"
      [] h = "handle_health" -> "/health"
      [] h = "handle_logo" -> "/logo.png"
      [] h = "handle_home" -> "/"
      [] h = "handle_get" -> "/get"
      [] h = "handle_post" -> "/post"
      [] h = "handle_put" -> "/put"
      [] h = "handle_patch" -> "/patch"
      [] h = "handle_delete" -> "/delete"
      [] h = "handle_headers" -> "/headers"
      [] h = "handle_ip" -> "/ip"
      [] h = "handle_user_agent" -> "/user-agent"
      [] h = "handle_status" -> "/status/" \o ToString(a)
      [] h = "handle_delay" -> "/delay/" \o ToString(a)
      [] h = "handle_cookies_get" -> "/cookies"
      [] h = "handle_cookies_set" -> "/cookies/set"
      [] h = "handle_cookies_delete" -> "/cookies/delete"
      [] h = "handle_basic_auth" -> basic_auth_key(a)
      [] h = "handle_bearer_auth" -> "/bearer"
      [] h = "handle_redirect" -> "/redirect/" \o ToString(a)
      [] h = "handle_redirect_to" -> "/redirect-to"
      [] h = "handle_absolute_redirect" -> "/absolute-redirect/" \o ToString(a)
      [] h = "handle_json" -> "/json"
      [] h = "handle_html" -> "/html"
      [] h = "handle_xml" -> "/xml"
      [] h \in {"handle_image", "handle_image_format"} -> "/image"
      [] h = "handle_bytes" -> "/bytes/" \o ToString(a)
      [] h = "handle_stream" -> "/stream/" \o ToString(a)
      [] h = "handle_uuid" -> "/uuid"
      [] h = "handle_base64_decode" -> "/base64/decode"
      [] h = "handle_anything" -> "/anything"

(* ------------------------------------------------------------------ *)
(* Responses                                                           *)
(* ------------------------------------------------------------------ *)
Response(status, error, location, limit, requested, payload) ==
    [ status |-> status,        \* the HTTP status code
      error |-> error,          \* the "error" field of a JSON error body
      location |-> location,    \* the location header
      limit |-> limit,          \* max_allowed / max_delay / max_bytes / ...
      requested |-> requested,  \* the "requested" field
      payload |-> payload ]     \* the number of bytes of a binary body

NoResponse == Response(0, None, None, None, None, None)
Plain(status) == Response(status, None, None, None, None, None)

EmptyMap == [k \in {} |-> 0]

NoStats ==
    [ total_requests |-> 0, successful_requests |-> 0, failed_requests |-> 0,
      redirects_blocked |-> 0, delays_blocked |-> 0, bytes_blocked |-> 0,
      dangerous_urls_blocked |-> 0, endpoint_stats |-> EmptyMap,
      began |-> 0,      \* Metrics calls made before the table was cloned
      ended |-> 0 ]     \* Metrics calls made before the last counter load

(* ------------------------------------------------------------------ *)
(* Metrics                                                             *)
(* ------------------------------------------------------------------ *)
(* Metrics::new and AppState::new; no request has arrived. *)
Init ==
    /\ total_requests = 0
    /\ successful_requests = 0
    /\ failed_requests = 0
    /\ redirects_blocked = 0
    /\ delays_blocked = 0
    /\ bytes_blocked = 0
    /\ dangerous_urls_blocked = 0
    /\ endpoint_stats = EmptyMap
    /\ poisoned = FALSE
    /\ pc = [r \in Req |-> "idle"]
    /\ handler = [r \in Req |-> "none"]
    /\ input = [r \in Req |-> 0]
    /\ stats = [r \in Req |-> NoStats]
    /\ resp = [r \in Req |-> NoResponse]
    /\ log = [r \in Req |-> << >>]

(* stats.insert(endpoint, 1): a key already present is reset to 1. *)
entry_insert(m, k) ==
    [j \in DOMAIN m \cup {k} |-> IF j = k THEN 1 ELSE m[j]]

(* *stats.entry(endpoint).or_insert(1) += 1: a new key starts at 2. *)
entry_add_from_one(m, k) ==
    IF k \in DOMAIN m
    THEN [m EXCEPT ![k] = @ + 1]
    ELSE [j \in DOMAIN m \cup {k} |-> IF j = k THEN 1 + 1 ELSE m[j]]

(* *stats.entry(endpoint).or_insert(0) += 1 *)
entry_add(m, k) ==
    IF k \in DOMAIN m
    THEN [m EXCEPT ![k] = @ + 1]
    ELSE [j \in DOMAIN m \cup {k} |-> IF j = k THEN 0 + 1 ELSE m[j]]

(* Request r moves to position p having made the Metrics calls es. *)
Goto(r, p, es) ==
    /\ pc' = [pc EXCEPT ![r] = p]
    /\ log' = [log EXCEPT ![r] = @ \o es]

(* The handler returns response rs. *)
Return(r, rs, es) ==
    /\ Goto(r, "done", es)
    /\ resp' = [resp EXCEPT ![r] = rs]

(* increment_total with handle_image_format, which only delegates to    *)
(* handle_image, counted in no total.                                  *)
increment_total_skipped(r) ==
    /\ pc[r] = "idle"
    /\ \E h \in Handlers : \E a \in InputChoices(h) :
          /\ handler' = [handler EXCEPT ![r] = h]
          /\ input' = [input EXCEPT ![r] = a]
          /\ total_requests' =
                IF h = "handle_image_format" THEN total_requests ELSE total_requests + 1
    /\ Goto(r, "record", <<"total">>)
    /\ UNCHANGED << successful_requests, failed_requests, redirects_blocked,
                    delays_blocked, bytes_blocked, dangerous_urls_blocked,
                    endpoint_stats, poisoned, stats, resp >>

(* increment_total as a load followed by a store: an increment that    *)
(* races with another request's is lost.                               *)
increment_total_racy(r) ==
    /\ pc[r] = "idle"
    /\ \E h \in Handlers : \E a \in InputChoices(h) :
          /\ handler' = [handler EXCEPT ![r] = h]
          /\ input' = [input EXCEPT ![r] = a]
    /\ total_requests' =
          IF \E q \in Req : pc[q] = "record" THEN total_requests ELSE total_requests + 1
    /\ Goto(r, "record", <<"total">>)
    /\ UNCHANGED << successful_requests, failed_requests, redirects_blocked,
                    delays_blocked, bytes_blocked, dangerous_urls_blocked,
                    endpoint_stats, poisoned, stats, resp >>

(* handle_bytes checking its guardrail first: an oversized request is  *)
(* blocked before increment_total and record_endpoint.                 *)
increment_total_after_guard(r) ==
    /\ pc[r] = "idle"
    /\ \E h \in Handlers : \E a \in InputChoices(h) :
          /\ handler' = [handler EXCEPT ![r] = h]
          /\ input' = [input EXCEPT ![r] = a]
          /\ IF h = "handle_bytes" /\ a > MAX_BYTES
             THEN /\ bytes_blocked' = bytes_blocked + 1
                  /\ total_requests' = total_requests
                  /\ Goto(r, "blocked", <<"guard", "bytes_blocked">>)
             ELSE /\ bytes_blocked' = bytes_blocked
                  /\ total_requests' = total_requests + 1
                  /\ Goto(r, "record", <<"total">>)
    /\ UNCHANGED << successful_requests, failed_requests, redirects_blocked,
                    delays_blocked, dangerous_urls_blocked,
                    endpoint_stats, poisoned, stats, resp >>

(* The router dispatches a request to handler h with input a; the      *)
(* handler's first statement is state.metrics.increment_total().       *)
increment_total(r) ==
    /\ pc[r] = "idle"
    /\ \E h \in Handlers : \E a \in InputChoices(h) :
          /\ handler' = [handler EXCEPT ![r] = h]
          /\ input' = [input EXCEPT ![r] = a]
    /\ total_requests' = total_requests + 1
    /\ Goto(r, "record", <<"total">>)
    /\ UNCHANGED << successful_requests, failed_requests, redirects_blocked,
                    delays_blocked, bytes_blocked, dangerous_urls_blocked,
                    endpoint_stats, poisoned, stats, resp >>

(* record_endpoint with self.endpoint_stats.lock().unwrap(): a poisoned *)
(* lock panics the handler.                                            *)
record_endpoint_unwrap(r) ==
    /\ pc[r] = "record"
    /\ IF poisoned
       THEN /\ Goto(r, "panicked", <<"panic">>)
            /\ UNCHANGED endpoint_stats
       ELSE /\ endpoint_stats' = entry_add(endpoint_stats, EndpointKey(handler[r], arg[r]))
            /\ Goto(r, "body", <<"record">>)
    /\ UNCHANGED << counters, poisoned, handler, input, stats, resp >>

(* record_endpoint when handle_delay keeps the MutexGuard across its    *)
(* sleep: the lock is not available while a request is suspended.      *)
record_endpoint_behind_sleeper(r) ==
    /\ pc[r] = "record"
    /\ \A q \in Req : pc[q] # "sleeping"
    /\ endpoint_stats' =
          IF poisoned THEN endpoint_stats
          ELSE entry_add(endpoint_stats, EndpointKey(handler[r], arg[r]))
    /\ Goto(r, "body", <<"record">>)
    /\ UNCHANGED << counters, poisoned, handler, input, stats, resp >>

(* state.metrics.record_endpoint(key): one critical section. *)
record_endpoint(r) ==
    /\ pc[r] = "record"
    /\ endpoint_stats' =
          IF poisoned THEN endpoint_stats
          ELSE entry_add(endpoint_stats, EndpointKey(handler[r], arg[r]))
    /\ Goto(r, "body", <<"record">>)
    /\ UNCHANGED << counters, poisoned, handler, input, stats, resp >>

(* state.metrics.increment_success() and the handler's return. *)
increment_success(r, rs, es) ==
    /\ successful_requests' = successful_requests + 1
    /\ Return(r, rs, es \o <<"success">>)
    /\ UNCHANGED << total_requests, failed_requests, redirects_blocked,
                    delays_blocked, bytes_blocked, dangerous_urls_blocked,
                    endpoint_stats, poisoned, handler, input, stats >>

(* state.metrics.increment_failed() and the handler's return. *)
increment_failed(r, rs, es) ==
    /\ failed_requests' = failed_requests + 1
    /\ Return(r, rs, es \o <<"failed">>)
    /\ UNCHANGED << total_requests, successful_requests, redirects_blocked,
                    delays_blocked, bytes_blocked, dangerous_urls_blocked,
                    endpoint_stats, poisoned, handler, input, stats >>

(* A step that touches no Metrics field and returns no response. *)
Local(r, p, es) ==
    /\ Goto(r, p, es)
    /\ UNCHANGED << counters, endpoint_stats, poisoned, handler, input, stats, resp >>

(* The plain handlers: handle_get, handle_post, ... *)
handle_simple(r) ==
    /\ pc[r] = "body"
    /\ handler[r] \in SimpleHandlers
    /\ increment_success(r, Plain(200), << >>)

(* StatusCode::from_u16(code).unwrap_or(StatusCode::OK) *)
status_from_u16(c) == IF c >= 100 /\ c < 1000 THEN c ELSE 200

(* is_success taking every status below 500 for a success. *)
is_success_below_500(st) == st >= 200 /\ st < 500

(* StatusCode::is_success *)
is_success(st) == st >= 200 /\ st < 300

handle_status(r) ==
    /\ pc[r] = "body"
    /\ handler[r] = "handle_status"
    /\ LET status == status_from_u16(arg[r])
       IN  IF is_success(status)
           THEN increment_success(r, Plain(status), << >>)
           ELSE increment_failed(r, Plain(status), << >>)

(* ------------------------------------------------------------------ *)
(* The guardrails                                                      *)
(* ------------------------------------------------------------------ *)
delay_too_long_inclusive(seconds) == seconds >= MAX_DELAY
too_many_redirects_inclusive(n) == n >= MAX_REDIRECTS
too_many_bytes_inclusive(n) == n >= MAX_BYTES

delay_too_long(seconds) == seconds > MAX_DELAY
too_many_redirects(n) == n > MAX_REDIRECTS
too_many_bytes(n) == n > MAX_BYTES
too_many_lines(n) == n > MAX_LINES
url_too_long(url) == len(url) > MAX_URL_LEN

dangerous_protocols ==
    << <<"j","a","v","a","s","c","r","i","p","t",":">>,
       <<"d","a","t","a",":">>,
       <<"f","i","l","e",":">>,
       <<"v","b","s","c","r","i","p","t",":">> >>

(* is_dangerous matching the protocols case-sensitively. *)
is_dangerous_case_sensitive(url) ==
    \E i \in DOMAIN dangerous_protocols :
        starts_with(url, dangerous_protocols[i])

(* for protocol in &dangerous_protocols { if url_lower.starts_with(..) } *)
is_dangerous(url) ==
    LET url_lower == to_lowercase(url)
    IN  \E i \in DOMAIN dangerous_protocols :
            starts_with(url_lower, dangerous_protocols[i])

(* The 400 response of a handler whose block counter was incremented. *)
Rejection(h, a) ==
    CASE h = "handle_delay" ->
            Response(400, Some("Delay too long"), None, Some(MAX_DELAY), Some(a), None)
      [] h \in {"handle_redirect", "handle_absolute_redirect"} ->
            Response(400, Some("Too many redirects"), None, Some(MAX_REDIRECTS), Some(a), None)
      [] h = "handle_bytes" ->
            Response(400, Some("Too many bytes requested"), None, Some(MAX_BYTES), Some(a), None)
      [] h = "handle_redirect_to" ->
            Response(400, Some("Invalid protocol"), None, None, None, None)

(* The rejection branch without its increment_failed call. *)
reject_without_failed(r) ==
    /\ pc[r] = "blocked"
    /\ Return(r, Rejection(handler[r], arg[r]), << >>)
    /\ UNCHANGED << counters, endpoint_stats, poisoned, handler, input, stats >>

(* The rejection branch after its block counter: increment_failed and  *)
(* the 400 response.                                                   *)
reject(r) ==
    /\ pc[r] = "blocked"
    /\ increment_failed(r, Rejection(handler[r], arg[r]), << >>)

handle_delay(r) ==
    /\ pc[r] = "body"
    /\ handler[r] = "handle_delay"
    /\ IF delay_too_long(arg[r])
       THEN /\ delays_blocked' = delays_blocked + 1
            /\ Goto(r, "blocked", <<"guard", "delays_blocked">>)
            /\ UNCHANGED << total_requests, successful_requests, failed_requests,
                            redirects_blocked, bytes_blocked, dangerous_urls_blocked,
                            endpoint_stats, poisoned, handler, input, stats, resp >>
       ELSE Local(r, "sleeping", <<"guard", "sleep_begin">>)

(* tokio::time::sleep(..).await completes. *)
sleep_end(r) ==
    /\ pc[r] = "sleeping"
    /\ Local(r, "woken", <<"sleep_end">>)

(* A dropped handle_delay future that takes its request back out of    *)
(* the total (a drop guard calling fetch_sub).                         *)
abort_uncounting_total(r) ==
    /\ pc[r] = "sleeping"
    /\ total_requests' = total_requests - 1
    /\ Goto(r, "aborted", <<"abort">>)
    /\ UNCHANGED << successful_requests, failed_requests, redirects_blocked,
                    delays_blocked, bytes_blocked, dangerous_urls_blocked,
                    endpoint_stats, poisoned, handler, input, stats, resp >>

(* A dropped handle_delay future that still reports a failure (a drop  *)
(* guard calling increment_failed).                                    *)
abort_counting_failed(r) ==
    /\ pc[r] = "sleeping"
    /\ failed_requests' = failed_requests + 1
    /\ Goto(r, "aborted", <<"abort", "failed">>)
    /\ UNCHANGED << total_requests, successful_requests, redirects_blocked,
                    delays_blocked, bytes_blocked, dangerous_urls_blocked,
                    endpoint_stats, poisoned, handler, input, stats, resp >>

(* The caller goes away while the handler is suspended: the future is  *)
(* dropped at its await point and runs no further.                     *)
abort(r) ==
    /\ pc[r] = "sleeping"
    /\ Local(r, "aborted", <<"abort">>)

handle_delay_done(r) ==
    /\ pc[r] = "woken"
    /\ increment_success(r, Plain(200), << >>)

redirect_location(h, n) ==
    IF h = "handle_redirect"
    THEN IF n <= 1 THEN "/get" ELSE "/redirect/" \o ToString(n - 1)
    ELSE IF n <= 1 THEN "https://rustjin.blackcerb.com.br/get"
         ELSE "https://rustjin.blackcerb.com.br/absolute-redirect/" \o ToString(n - 1)

(* handle_redirect and handle_absolute_redirect *)
handle_redirect(r) ==
    /\ pc[r] = "body"
    /\ handler[r] \in {"handle_redirect", "handle_absolute_redirect"}
    /\ IF too_many_redirects(arg[r])
       THEN /\ redirects_blocked' = redirects_blocked + 1
            /\ Goto(r, "blocked", <<"guard", "redirects_blocked">>)
            /\ UNCHANGED << total_requests, successful_requests, failed_requests,
                            delays_blocked, bytes_blocked, dangerous_urls_blocked,
                            endpoint_stats, poisoned, handler, input, stats, resp >>
       ELSE increment_success(r,
                Response(IF arg[r] <= 1 THEN 200 ELSE 302, None,
                         Some(redirect_location(handler[r], arg[r])), None, None, None),
                <<"guard">>)

(* The effective target of an allowed /redirect-to. *)
final_url(url) ==
    IF /\ ~starts_with(url, <<"h","t","t","p",":","/","/">>)
       /\ ~starts_with(url, <<"h","t","t","p","s",":","/","/">>)
    THEN <<"h","t","t","p",":","/","/">> \o url
    ELSE url

handle_redirect_to(r) ==
    /\ pc[r] = "body"
    /\ handler[r] = "handle_redirect_to"
    /\ LET url == trim(Urls[arg[r]])
       IN  IF is_dangerous(url)
           THEN /\ dangerous_urls_blocked' = dangerous_urls_blocked + 1
                /\ Goto(r, "blocked", <<"guard", "dangerous_urls_blocked">>)
                /\ UNCHANGED << total_requests, successful_requests, failed_requests,
                                redirects_blocked, delays_blocked, bytes_blocked,
                                endpoint_stats, poisoned, handler, input, stats, resp >>
           ELSE IF url_too_long(url)
           THEN increment_failed(r,
                    Response(400, Some("URL too long"), None, Some(MAX_URL_LEN), None, None),
                    <<"guard">>)
           ELSE increment_success(r,
                    Response(302, None, Some(final_url(url)), None, None, None),
                    <<"guard">>)

(* The vector counted from one: (1..=n).map(|i| (i % 256) as u8). *)
bytes_from_one(n) == [i \in 1..n |-> i % 256]

(* (0..n).map(|i| (i % 256) as u8).collect(): the vector of n bytes,  *)
(* the byte of index i at position i + 1.                             *)
bytes(n) == [i \in 1..n |-> (i - 1) % 256]

(* The number of bytes of the vector the response body is made of. *)
bytes_len(n) == Len(bytes(n))

handle_bytes(r) ==
    /\ pc[r] = "body"
    /\ handler[r] = "handle_bytes"
    /\ IF too_many_bytes(arg[r])
       THEN /\ bytes_blocked' = bytes_blocked + 1
            /\ Goto(r, "blocked", <<"guard", "bytes_blocked">>)
            /\ UNCHANGED << total_requests, successful_requests, failed_requests,
                            redirects_blocked, delays_blocked, dangerous_urls_blocked,
                            endpoint_stats, poisoned, handler, input, stats, resp >>
       ELSE increment_success(r,
                Response(200, None, None, None, None, Some(bytes_len(arg[r]))),
                <<"guard">>)

(* handle_stream with the rejection branch of handle_bytes pasted in:  *)
(* it counts the rejection in bytes_blocked as well.                   *)
handle_stream_counting_bytes_blocked(r) ==
    /\ pc[r] = "body"
    /\ handler[r] = "handle_stream"
    /\ IF too_many_lines(arg[r])
       THEN /\ bytes_blocked' = bytes_blocked + 1
            /\ failed_requests' = failed_requests + 1
            /\ Return(r, Response(400, Some("Too many lines requested"), None,
                                  Some(MAX_LINES), Some(arg[r]), None),
                      <<"guard", "bytes_blocked", "failed">>)
            /\ UNCHANGED << total_requests, successful_requests, redirects_blocked,
                            delays_blocked, dangerous_urls_blocked,
                            endpoint_stats, poisoned, handler, input, stats >>
       ELSE increment_success(r, Plain(200), <<"guard">>)

handle_stream(r) ==
    /\ pc[r] = "body"
    /\ handler[r] = "handle_stream"
    /\ IF too_many_lines(arg[r])
       THEN increment_failed(r,
                Response(400, Some("Too many lines requested"), None,
                         Some(MAX_LINES), Some(arg[r]), None),
                <<"guard">>)
       ELSE increment_success(r, Plain(200), <<"guard">>)

(* ------------------------------------------------------------------ *)
(* Cookies, authentication, base64                                     *)
(* ------------------------------------------------------------------ *)

(* The handler panics (an unwrap of an Err): the task unwinds, holding *)
(* no lock, and makes no further Metrics call.                         *)
panic(r) == Local(r, "panicked", <<"panic">>)

(* format!("{}={}", k, v) *)
set_cookie(kv) == kv[1] \o <<"=">> \o kv[2]

handle_cookies_set(r) ==
    /\ pc[r] = "body"
    /\ handler[r] = "handle_cookies_set"
    /\ IF \A i \in DOMAIN arg[r] : header_value_parses(set_cookie(arg[r][i]))
       THEN increment_success(r, Plain(200), << >>)
       ELSE panic(r)

(* format!("{}=; Max-Age=0", name) *)
delete_cookie(name) ==
    name \o <<"=", ";", " ", "M", "a", "x", "-", "A", "g", "e", "=", "0">>

handle_cookies_delete(r) ==
    /\ pc[r] = "body"
    /\ handler[r] = "handle_cookies_delete"
    /\ IF arg[r] = None \/ header_value_parses(delete_cookie(arg[r][1]))
       THEN increment_success(r, Plain(200), << >>)
       ELSE panic(r)

(* The nested if-lets of handle_basic_auth. *)
basic_authenticated(a) ==
    /\ a.authorization # None
    /\ LET auth_str == a.authorization[1]
       IN  /\ to_str_ok(auth_str)
           /\ starts_with(auth_str, <<"B","a","s","i","c"," ">>)
           /\ LET decoded == b64_decode(SubSeq(auth_str, 7, Len(auth_str)))
              IN  /\ decoded.ok
                  /\ utf8_valid(decoded.bytes)
                  /\ LET parts == splitn2(decoded.bytes)
                     IN  /\ Len(parts) = 2
                         /\ parts[1] = as_bytes(a.user)
                         /\ parts[2] = as_bytes(a.password)

handle_basic_auth(r) ==
    /\ pc[r] = "body"
    /\ handler[r] = "handle_basic_auth"
    /\ IF basic_authenticated(arg[r])
       THEN increment_success(r, Plain(200), << >>)
       ELSE increment_failed(r, Plain(401), << >>)

bearer_authenticated(a) ==
    /\ a # None
    /\ to_str_ok(a[1])
    /\ starts_with(a[1], <<"B","e","a","r","e","r"," ">>)

handle_bearer_auth(r) ==
    /\ pc[r] = "body"
    /\ handler[r] = "handle_bearer_auth"
    /\ IF bearer_authenticated(arg[r])
       THEN increment_success(r, Plain(200), << >>)
       ELSE increment_failed(r, Plain(401), << >>)

handle_base64_decode(r) ==
    /\ pc[r] = "body"
    /\ handler[r] = "handle_base64_decode"
    /\ LET decoded == b64_decode(arg[r])
       IN  IF decoded.ok
           THEN IF utf8_valid(decoded.bytes)
                THEN increment_success(r, Plain(200), << >>)
                ELSE increment_failed(r,
                        Response(400, Some("Invalid UTF-8"), None, None, None, None), << >>)
           ELSE increment_failed(r,
                    Response(400, Some("Invalid base64"), None, None, None, None), << >>)

(* ------------------------------------------------------------------ *)
(* /metrics: get_stats reads the table, then each counter in turn      *)
(* ------------------------------------------------------------------ *)
(* The Metrics calls that write a counter or the table. *)
MetricsCalls ==
    { "total", "record", "success", "failed", "redirects_blocked",
      "delays_blocked", "bytes_blocked", "dangerous_urls_blocked" }

(* The number of such calls all requests have made so far. *)
Mutations ==
    LET f[n \in 0..NReq] ==
            IF n = 0 THEN 0
            ELSE f[n - 1] + Cardinality({i \in DOMAIN log[n] : log[n][i] \in MetricsCalls})
    IN  f[NReq]

(* total_requests read with swap(0, Relaxed): the load resets it. *)
get_stats_total_swap(r) ==
    /\ pc[r] = "load_total"
    /\ stats' = [stats EXCEPT ![r] = [@ EXCEPT !["total_requests"] = total_requests]]
    /\ pc' = [pc EXCEPT ![r] = "load_successful"]
    /\ total_requests' = 0
    /\ UNCHANGED << successful_requests, failed_requests, redirects_blocked,
                    delays_blocked, bytes_blocked, dangerous_urls_blocked,
                    endpoint_stats, poisoned, handler, input, resp, log >>

(* One read of get_stats: the value goes into the snapshot being built, *)
(* which also notes when its first and its last read happened.          *)
Read(r, field, value, p) ==
    /\ stats' = [stats EXCEPT ![r] =
                    [@ EXCEPT ![field] = value,
                              !.began = IF field = "endpoint_stats" THEN Mutations ELSE @,
                              !.ended = IF field = "dangerous_urls_blocked" THEN Mutations ELSE @]]
    /\ pc' = [pc EXCEPT ![r] = p]
    /\ UNCHANGED << counters, endpoint_stats, poisoned, handler, input, resp, log >>

(* self.endpoint_stats.lock().ok().map(|stats| stats.clone()).unwrap_or_default() *)
get_stats_endpoints(r) ==
    /\ pc[r] = "body"
    /\ handler[r] = "handle_metrics"
    /\ Read(r, "endpoint_stats",
            IF poisoned THEN EmptyMap ELSE endpoint_stats, "load_total")

get_stats_total(r) ==
    /\ pc[r] = "load_total"
    /\ Read(r, "total_requests", total_requests, "load_successful")

(* get_stats with the table cloned after total_requests was loaded     *)
(* instead of before.                                                  *)
get_stats_table_after_total(r) ==
    /\ pc[r] = "load_successful"
    /\ stats' = [stats EXCEPT ![r] =
                    [@ EXCEPT !.successful_requests = successful_requests,
                              !.endpoint_stats =
                                  IF poisoned THEN EmptyMap ELSE endpoint_stats]]
    /\ pc' = [pc EXCEPT ![r] = "load_failed"]
    /\ UNCHANGED << counters, endpoint_stats, poisoned, handler, input, resp, log >>

get_stats_successful(r) ==
    /\ pc[r] = "load_successful"
    /\ Read(r, "successful_requests", successful_requests, "load_failed")

(* failed_requests not loaded but taken as the rest of the total: a    *)
(* snapshot made consistent by construction.                           *)
get_stats_failed_derived(r) ==
    /\ pc[r] = "load_failed"
    /\ stats' = [stats EXCEPT ![r] =
                    [@ EXCEPT !.failed_requests =
                          stats[r].total_requests - stats[r].successful_requests]]
    /\ pc' = [pc EXCEPT ![r] = "load_redirects"]
    /\ UNCHANGED << counters, endpoint_stats, poisoned, handler, input, resp, log >>

get_stats_failed(r) ==
    /\ pc[r] = "load_failed"
    /\ Read(r, "failed_requests", failed_requests, "load_redirects")

get_stats_redirects(r) ==
    /\ pc[r] = "load_redirects"
    /\ Read(r, "redirects_blocked", redirects_blocked, "load_delays")

get_stats_delays(r) ==
    /\ pc[r] = "load_delays"
    /\ Read(r, "delays_blocked", delays_blocked, "load_bytes")

get_stats_bytes(r) ==
    /\ pc[r] = "load_bytes"
    /\ Read(r, "bytes_blocked", bytes_blocked, "load_dangerous")

get_stats_dangerous(r) ==
    /\ pc[r] = "load_dangerous"
    /\ Read(r, "dangerous_urls_blocked", dangerous_urls_blocked, "stats_read")

(* handle_metrics after get_stats returned: increment_success, Json(stats). *)
handle_metrics(r) ==
    /\ pc[r] = "stats_read"
    /\ increment_success(r, Plain(200), << >>)

(* The steps request r takes by itself once the router has dispatched  *)
(* it: the runtime polls its task whenever it can make progress.       *)
Run(r) ==
    \/ record_endpoint(r)
    \/ handle_simple(r)
    \/ handle_status(r)
    \/ handle_delay(r)
    \/ sleep_end(r)
    \/ handle_delay_done(r)
    \/ handle_redirect(r)
    \/ handle_redirect_to(r)
    \/ handle_bytes(r)
    \/ handle_stream(r)
    \/ reject(r)
    \/ handle_cookies_set(r)
    \/ handle_cookies_delete(r)
    \/ handle_basic_auth(r)
    \/ handle_bearer_auth(r)
    \/ handle_base64_decode(r)
    \/ get_stats_endpoints(r)
    \/ get_stats_total(r)
    \/ get_stats_successful(r)
    \/ get_stats_failed(r)
    \/ get_stats_redirects(r)
    \/ get_stats_delays(r)
    \/ get_stats_bytes(r)
    \/ get_stats_dangerous(r)
    \/ handle_metrics(r)

(* A step of request r: its arrival, a step of its task, or its caller *)
(* going away.                                                         *)
Step(r) ==
    \/ increment_total(r)
    \/ Run(r)
    \/ abort(r)

Next == \E r \in Req : Step(r)

Spec == Init /\ [][Next]_vars

(* ------------------------------------------------------------------ *)
(* /delay among other traffic, under the runtime's scheduling          *)
(* ------------------------------------------------------------------ *)

(* The handlers of this traffic: /delay with a plain handler and       *)
(* /metrics beside it.                                                 *)
DelayTraffic == {"handle_delay", "handle_get", "handle_metrics"}

arrive(r) ==
    /\ increment_total(r)
    /\ handler'[r] \in DelayTraffic

(* The steps the task of request r takes by itself. *)
RunDelay(r) ==
    \/ record_endpoint(r)
    \/ handle_simple(r)
    \/ handle_delay(r)
    \/ sleep_end(r)
    \/ handle_delay_done(r)
    \/ reject(r)
    \/ get_stats_endpoints(r)
    \/ get_stats_total(r)
    \/ get_stats_successful(r)
    \/ get_stats_failed(r)
    \/ get_stats_redirects(r)
    \/ get_stats_delays(r)
    \/ get_stats_bytes(r)
    \/ get_stats_dangerous(r)
    \/ handle_metrics(r)

StepDelay(r) ==
    \/ arrive(r)
    \/ RunDelay(r)
    \/ abort(r)

NextDelay == \E r \in Req : StepDelay(r)

(* The tokio runtime polls every task that is ready and its timer       *)
(* completes every sleep: a request whose task can take a step          *)
(* eventually takes one.  Arrivals and aborts are the callers' choice.  *)
FairDelay == Init /\ [][NextDelay]_vars /\ \A r \in Req : WF_vars(RunDelay(r))

(* ------------------------------------------------------------------ *)
(* A poisoned endpoint_stats lock                                      *)
(* ------------------------------------------------------------------ *)

(* record_endpoint panics inside its critical section (the += 1 on a   *)
(* count of u64::MAX, overflow checks on): the guard is dropped during *)
(* the unwind, which poisons the Mutex for good, and the request ends  *)
(* there.  The count at which this happens lies beyond the counts a    *)
(* bounded run reaches; the step is taken at any count.                *)
record_endpoint_panic(r) ==
    /\ pc[r] = "record"
    /\ ~poisoned
    /\ poisoned' = TRUE
    /\ Goto(r, "panicked", <<"panic">>)
    /\ UNCHANGED << counters, endpoint_stats, handler, input, stats, resp >>

NextPoison ==
    \/ Next
    \/ \E r \in Req : record_endpoint_panic(r)

SpecPoison == Init /\ [][NextPoison]_vars

(* ------------------------------------------------------------------ *)
(* One client following a redirect chain                               *)
(* ------------------------------------------------------------------ *)

(* The client's first request: /redirect/n or /absolute-redirect/n for *)
(* an allowed depth n; Path<u32>, then the handler's increment_total.  *)
chain_start(r) ==
    /\ pc[r] = "idle"
    /\ total_requests = 0
    /\ \E h \in {"handle_redirect", "handle_absolute_redirect"} :
       \E n \in 0..MAX_REDIRECTS :
          /\ handler' = [handler EXCEPT ![r] = h]
          /\ input' = [input EXCEPT ![r] = n]
    /\ total_requests' = total_requests + 1
    /\ Goto(r, "record", <<"total">>)
    /\ UNCHANGED << successful_requests, failed_requests, redirects_blocked,
                    delays_blocked, bytes_blocked, dangerous_urls_blocked,
                    endpoint_stats, poisoned, stats, resp >>

(* The requests a Location of the redirect handlers can name, and the   *)
(* Router's match of a Location against its routes /redirect/:n,        *)
(* /absolute-redirect/:n and /get.                                      *)
ChainRequests ==
    [h : {"handle_redirect", "handle_absolute_redirect"}, n : 0..MAX_REDIRECTS]
        \cup [h : {"handle_get"}, n : {0}]

routes_to(location, t) ==
    CASE t.h = "handle_redirect" -> location = "/redirect/" \o ToString(t.n)
      [] t.h = "handle_absolute_redirect" ->
            location = "https://rustjin.blackcerb.com.br/absolute-redirect/" \o ToString(t.n)
      [] t.h = "handle_get" ->
            location \in {"/get", "https://rustjin.blackcerb.com.br/get"}

(* The client got a 3xx answer with a Location and requests the target: *)
(* the next hop, dispatched by the Router, starts with increment_total. *)
follow(r) ==
    /\ pc[r] = "done"
    /\ resp[r].status \in 300..399
    /\ resp[r].location # None
    /\ \E t \in ChainRequests :
          /\ routes_to(resp[r].location[1], t)
          /\ handler' = [handler EXCEPT ![r] = t.h]
          /\ input' = [input EXCEPT ![r] = t.n]
    /\ total_requests' = total_requests + 1
    /\ pc' = [pc EXCEPT ![r] = "record"]
    /\ log' = [log EXCEPT ![r] = <<"total">>]
    /\ resp' = [resp EXCEPT ![r] = NoResponse]
    /\ UNCHANGED << successful_requests, failed_requests, redirects_blocked,
                    delays_blocked, bytes_blocked, dangerous_urls_blocked,
                    endpoint_stats, poisoned, stats >>

NextChain ==
    \/ chain_start(1)
    \/ record_endpoint(1)
    \/ handle_redirect(1)
    \/ follow(1)

SpecChain == Init /\ [][NextChain]_vars

(* ------------------------------------------------------------------ *)
(* One client sweeping /status/:code                                   *)
(* ------------------------------------------------------------------ *)

(* The routes registered on the Router: method and path template. *)
Routes ==
    { <<"GET", "/get">>, <<"POST", "/post">>, <<"PUT", "/put">>,
      <<"PATCH", "/patch">>, <<"DELETE", "/delete">>,
      <<"GET", "/headers">>, <<"GET", "/ip">>, <<"GET", "/user-agent">>,
      <<"GET", "/status/:code">>, <<"POST", "/status/:code">>,
      <<"PUT", "/status/:code">>, <<"DELETE", "/status/:code">>,
      <<"GET", "/delay/:seconds">>,
      <<"GET", "/cookies">>, <<"GET", "/cookies/set">>, <<"GET", "/cookies/delete">>,
      <<"GET", "/basic-auth/:user/:password">>, <<"GET", "/bearer">>,
      <<"GET", "/redirect/:n">>, <<"GET", "/redirect-to">>,
      <<"GET", "/absolute-redirect/:n">>,
      <<"GET", "/json">>, <<"GET", "/html">>, <<"GET", "/xml">>,
      <<"GET", "/image">>, <<"GET", "/image/:format">>,
      <<"GET", "/bytes/:n">>, <<"GET", "/stream/:n">>, <<"GET", "/uuid">>,
      <<"GET", "/base64/:value">>, <<"GET", "/logo.png">>,
      <<"GET", "/metrics">>, <<"GET", "/health">>,
      <<"GET", "/anything">>, <<"POST", "/anything">>,
      <<"GET", "/anything/*path">>, <<"POST", "/anything/*path">>,
      <<"GET", "/">> }

NRoutes == Cardinality(Routes)

(* The client's next request: GET /status/0, /status/1, ..., stopping   *)
(* after NRoutes + 1 requests.  Path<u16>, then handle_status's         *)
(* increment_total.                                                     *)
status_sweep(r) ==
    /\ pc[r] = "idle"
    /\ total_requests <= NRoutes
    /\ handler' = [handler EXCEPT ![r] = "handle_status"]
    /\ input' = [input EXCEPT ![r] = total_requests]
    /\ total_requests' = total_requests + 1
    /\ Goto(r, "record", <<"total">>)
    /\ UNCHANGED << successful_requests, failed_requests, redirects_blocked,
                    delays_blocked, bytes_blocked, dangerous_urls_blocked,
                    endpoint_stats, poisoned, stats, resp >>

(* The response was sent and the request's task has ended: the          *)
(* connection carries the next request.                                 *)
recycle(r) ==
    /\ pc[r] = "done"
    /\ pc' = [pc EXCEPT ![r] = "idle"]
    /\ handler' = [handler EXCEPT ![r] = "none"]
    /\ input' = [input EXCEPT ![r] = 0]
    /\ stats' = [stats EXCEPT ![r] = NoStats]
    /\ resp' = [resp EXCEPT ![r] = NoResponse]
    /\ log' = [log EXCEPT ![r] = << >>]
    /\ UNCHANGED << counters, endpoint_stats, poisoned >>

NextSweep ==
    \/ status_sweep(1)
    \/ record_endpoint(1)
    \/ handle_status(1)
    \/ recycle(1)

SpecSweep == Init /\ [][NextSweep]_vars

(* ------------------------------------------------------------------ *)
(* /metrics beside a stream of short requests                          *)
(* ------------------------------------------------------------------ *)

(* The number of requests this traffic sends in all. *)
MaxServed == 3

SnapshotTraffic == {"handle_metrics", "handle_get"}

(* A request to /metrics or /get arrives, while fewer than MaxServed   *)
(* have been sent.                                                     *)
arrive_beside_metrics(r) ==
    /\ total_requests < MaxServed
    /\ increment_total(r)
    /\ handler'[r] \in SnapshotTraffic

(* The task of a /get request that has returned ends and its slot      *)
(* takes the next request.                                             *)
recycle_get(r) ==
    /\ handler[r] = "handle_get"
    /\ recycle(r)

NextSnapshot ==
    \E r \in Req :
        \/ arrive_beside_metrics(r)
        \/ record_endpoint(r)
        \/ handle_simple(r)
        \/ recycle_get(r)
        \/ get_stats_endpoints(r)
        \/ get_stats_total(r)
        \/ get_stats_successful(r)
        \/ get_stats_failed(r)
        \/ get_stats_redirects(r)
        \/ get_stats_delays(r)
        \/ get_stats_bytes(r)
        \/ get_stats_dangerous(r)
        \/ handle_metrics(r)

SpecSnapshot == Init /\ [][NextSnapshot]_vars

(* ------------------------------------------------------------------ *)
(* One client asking for byte payloads                                 *)
(* ------------------------------------------------------------------ *)

(* The largest of the small byte counts the client asks for. *)
MaxSample == 300

(* Path<usize> of /bytes/:n: every small count, past the first wrap of *)
(* i % 256, and the counts at the limit.                               *)
BytesSample == (0..MaxSample) \cup {MAX_BYTES, MAX_BYTES + 1}

(* GET /bytes/n: Path<usize>, then handle_bytes's increment_total. *)
bytes_request(r) ==
    /\ pc[r] = "idle"
    /\ handler' = [handler EXCEPT ![r] = "handle_bytes"]
    /\ \E n \in BytesSample : input' = [input EXCEPT ![r] = n]
    /\ total_requests' = total_requests + 1
    /\ Goto(r, "record", <<"total">>)
    /\ UNCHANGED << successful_requests, failed_requests, redirects_blocked,
                    delays_blocked, bytes_blocked, dangerous_urls_blocked,
                    endpoint_stats, poisoned, stats, resp >>

NextBytes ==
    \/ bytes_request(1)
    \/ record_endpoint(1)
    \/ handle_bytes(1)
    \/ reject(1)

SpecBytes == Init /\ [][NextBytes]_vars

(* ------------------------------------------------------------------ *)
(* Properties                                                          *)
(* ------------------------------------------------------------------ *)
Count(seq, e) == Cardinality({i \in DOMAIN seq : seq[i] = e})

(* The number of calls e that all requests together have made. *)
Calls(e) ==
    LET f[n \in 0..NReq] == IF n = 0 THEN 0 ELSE f[n - 1] + Count(log[n], e)
    IN  f[NReq]

Has(r, e) == Count(log[r], e) > 0

(* Index of the first e in request r's log. *)
First(r, e) == CHOOSE i \in DOMAIN log[r] : log[r][i] = e /\ \A j \in 1..(i - 1) : log[r][j] # e

InFlight(r) == pc[r] \notin {"idle", "done", "aborted", "panicked"}

BlockEvents ==
    {"redirects_blocked", "delays_blocked", "bytes_blocked", "dangerous_urls_blocked"}

Blocks(r) == Cardinality({i \in DOMAIN log[r] : log[r][i] \in BlockEvents})

(* Each counter holds the number of increments the requests made. *)
Accounted ==
    /\ total_requests = Calls("total")
    /\ successful_requests = Calls("success")
    /\ failed_requests = Calls("failed")
    /\ redirects_blocked = Calls("redirects_blocked")
    /\ delays_blocked = Calls("delays_blocked")
    /\ bytes_blocked = Calls("bytes_blocked")
    /\ dangerous_urls_blocked = Calls("dangerous_urls_blocked")

(* A rejected request: its block counter e and failed once each, no success. *)
RejectedWith(r, e) ==
    /\ Count(log[r], e) = 1
    /\ Blocks(r) = 1
    /\ Count(log[r], "failed") = 1
    /\ Count(log[r], "success") = 0

(* An allowed request: one success, no failure and no block counter. *)
Allowed(r) ==
    /\ Count(log[r], "success") = 1
    /\ Count(log[r], "failed") = 0
    /\ Blocks(r) = 0

(* C1: in every reachable state, whatever the interleaving and with     *)
(* requests in flight, aborted or panicked, successful_requests +       *)
(* failed_requests <= total_requests.                                   *)
C1_OutcomesWithinTotal ==
    successful_requests + failed_requests <= total_requests

(* C1 witness: one request was aborted, another one completed, and the  *)
(* total is strictly ahead of the outcomes.                             *)
C1_Witness ==
    /\ \E r \in Req : pc[r] = "aborted"
    /\ \E r \in Req : pc[r] = "done"
    /\ successful_requests + failed_requests < total_requests

(* C2: every request whose handling has ended (it returned or it        *)
(* unwound; a request dropped by its caller has no terminal point) has  *)
(* made exactly one of increment_success and increment_failed.          *)
C2_ExactlyOneOutcome ==
    \A r \in Req :
        pc[r] \in {"done", "panicked"} =>
            Count(log[r], "success") + Count(log[r], "failed") = 1

(* C3: the total equals the number of requests that have passed handler *)
(* entry, so once all NReq concurrent requests have, it is exactly NReq. *)
C3_NoLostTotal ==
    /\ total_requests = Cardinality({r \in Req : pc[r] # "idle"})
    /\ (\A r \in Req : pc[r] # "idle") => total_requests = NReq

(* C3 witness: all requests have entered and all are still running.     *)
C3_Witness ==
    /\ \A r \in Req : pc[r] = "record"
    /\ total_requests = NReq

(* C4: whenever no request is in flight and none was aborted,           *)
(* successful_requests + failed_requests = total_requests.              *)
C4_QuiescentEquality ==
    (\A r \in Req : ~InFlight(r) /\ pc[r] # "aborted") =>
        successful_requests + failed_requests = total_requests

(* C5: every request calls increment_total once and record_endpoint     *)
(* once, and both before its guardrail comparison, its block counter    *)
(* and its outcome counter.                                             *)
C5_EntryFirst ==
    \A r \in Req :
        /\ pc[r] = "idle" => log[r] = << >>
        /\ pc[r] = "record" => log[r] = <<"total">>
        /\ pc[r] \notin {"idle", "record"} =>
              /\ Len(log[r]) >= 2
              /\ Count(log[r], "total") = 1
              /\ Count(log[r], "record") = 1
              /\ {log[r][1], log[r][2]} = {"total", "record"}

(* C5 witness: a guardrailed request was rejected and returned.         *)
C5_Witness ==
    \E r \in Req :
        /\ pc[r] = "done"
        /\ log[r] = <<"total", "record", "guard", "delays_blocked", "failed">>

(* C6: on /redirect/:n and /absolute-redirect/:n a depth above 10 is    *)
(* rejected, raising redirects_blocked and failed_requests by one each  *)
(* and successful_requests not at all; a depth in 1..10 is allowed and  *)
(* raises successful_requests by one and no block counter.              *)
C6_RedirectDepth ==
    /\ Accounted
    /\ \A r \in Req :
          handler[r] \in {"handle_redirect", "handle_absolute_redirect"} =>
              /\ arg[r] > 10 =>
                    /\ pc[r] \in {"record", "body", "blocked", "done"}
                    /\ ~Has(r, "success")
                    /\ pc[r] = "done" =>
                          /\ RejectedWith(r, "redirects_blocked")
                          /\ resp[r].status = 400
                          /\ resp[r].location = None
              /\ (arg[r] >= 1 /\ arg[r] <= 10) =>
                    /\ pc[r] \in {"record", "body", "done"}
                    /\ Blocks(r) = 0
                    /\ ~Has(r, "failed")
                    /\ pc[r] = "done" =>
                          /\ Allowed(r)
                          /\ resp[r].status \in {200, 302}
                          /\ resp[r].location # None

(* C6 witness: a /redirect/11 was rejected and an /absolute-redirect/10 *)
(* was allowed.                                                         *)
C6_Witness ==
    \E r, q \in Req :
        /\ handler[r] = "handle_redirect" /\ arg[r] = 11 /\ pc[r] = "done"
        /\ handler[q] = "handle_absolute_redirect" /\ arg[q] = 10 /\ pc[q] = "done"
        /\ redirects_blocked = 1 /\ failed_requests = 1 /\ successful_requests = 1

(* C7: a delay above 10 seconds is rejected with delays_blocked and     *)
(* failed_requests raised by one each and the handler never suspends; a *)
(* delay of at most 10 suspends, and successful_requests is raised only *)
(* after the suspension has ended.                                      *)
C7_DelayGuard ==
    /\ Accounted
    /\ \A r \in Req :
          handler[r] = "handle_delay" =>
              /\ arg[r] > 10 =>
                    /\ pc[r] \in {"record", "body", "blocked", "done"}
                    /\ ~Has(r, "sleep_begin")
                    /\ ~Has(r, "success")
                    /\ pc[r] = "done" =>
                          /\ RejectedWith(r, "delays_blocked")
                          /\ resp[r].status = 400
              /\ arg[r] <= 10 =>
                    /\ Blocks(r) = 0
                    /\ ~Has(r, "failed")
                    /\ pc[r] \notin {"record", "body"} => Count(log[r], "sleep_begin") = 1
                    /\ pc[r] = "sleeping" <=> (Has(r, "sleep_begin") /\ ~Has(r, "sleep_end") /\ ~Has(r, "abort"))
                    /\ Has(r, "success") =>
                          /\ Has(r, "sleep_end")
                          /\ First(r, "sleep_begin") < First(r, "sleep_end")
                          /\ First(r, "sleep_end") < First(r, "success")
                    /\ pc[r] = "done" => Allowed(r) /\ resp[r].status = 200

(* C7 witness: a /delay/11 was rejected and a /delay/10 slept and       *)
(* returned.                                                            *)
C7_Witness ==
    \E r, q \in Req :
        /\ handler[r] = "handle_delay" /\ arg[r] = 11 /\ pc[r] = "done"
        /\ handler[q] = "handle_delay" /\ arg[q] = 10 /\ pc[q] = "done"
        /\ Has(q, "sleep_end")
        /\ delays_blocked = 1 /\ failed_requests = 1 /\ successful_requests = 1

(* C8: a byte count above 100000 is rejected, raising bytes_blocked and *)
(* failed_requests by one each and producing no byte payload; a count   *)
(* of at most 100000, 100000 included, is allowed and raises            *)
(* successful_requests by one.                                          *)
C8_BytesGuard ==
    /\ Accounted
    /\ \A r \in Req :
          handler[r] = "handle_bytes" =>
              /\ arg[r] > 100000 =>
                    /\ pc[r] \in {"record", "body", "blocked", "done"}
                    /\ ~Has(r, "success")
                    /\ resp[r].payload = None
                    /\ pc[r] = "done" =>
                          /\ RejectedWith(r, "bytes_blocked")
                          /\ resp[r].status = 400
              /\ arg[r] <= 100000 =>
                    /\ pc[r] \in {"record", "body", "done"}
                    /\ Blocks(r) = 0
                    /\ ~Has(r, "failed")
                    /\ pc[r] = "done" =>
                          /\ Allowed(r)
                          /\ resp[r].status = 200
                          /\ resp[r].payload = Some(arg[r])

(* C8 witness: a /bytes/100001 was rejected and a /bytes/100000 was     *)
(* served.                                                              *)
C8_Witness ==
    \E r, q \in Req :
        /\ handler[r] = "handle_bytes" /\ arg[r] = 100001 /\ pc[r] = "done"
        /\ handler[q] = "handle_bytes" /\ arg[q] = 100000 /\ pc[q] = "done"
        /\ resp[q].payload = Some(100000)
        /\ bytes_blocked = 1 /\ failed_requests = 1 /\ successful_requests = 1

(* The URLs of the model that, trimmed and lower-cased, start with      *)
(* javascript:, data:, file: or vbscript:.                              *)
DangerousUrls == 1..5

(* C9: a redirect-target URL whose trimmed, lower-cased form starts     *)
(* with javascript:, data:, file: or vbscript:, in any letter case and  *)
(* with any surrounding whitespace, is rejected with "Invalid           *)
(* protocol", raises dangerous_urls_blocked and failed_requests by one  *)
(* each and gets no Location target.                                    *)
C9_DangerousUrl ==
    /\ Accounted
    /\ \A r \in Req :
          (handler[r] = "handle_redirect_to" /\ arg[r] \in DangerousUrls) =>
              /\ pc[r] \in {"record", "body", "blocked", "done"}
              /\ ~Has(r, "success")
              /\ resp[r].location = None
              /\ pc[r] = "done" =>
                    /\ RejectedWith(r, "dangerous_urls_blocked")
                    /\ resp[r].status = 400
                    /\ resp[r].error = Some("Invalid protocol")

(* C9 witness: " JavaScript:x " and "javascript:alert(1)" were both     *)
(* rejected.                                                            *)
C9_Witness ==
    \E r, q \in Req :
        /\ handler[r] = "handle_redirect_to" /\ arg[r] = 1 /\ pc[r] = "done"
        /\ handler[q] = "handle_redirect_to" /\ arg[q] = 2 /\ pc[q] = "done"
        /\ dangerous_urls_blocked = 2 /\ failed_requests = 2

(* C10: a request that incremented a block counter increments           *)
(* failed_requests exactly once and successful_requests never; hence    *)
(* with no request in flight the four block counters sum to at most     *)
(* failed_requests.                                                     *)
C10_BlockImpliesFailed ==
    /\ Accounted
    /\ \A r \in Req :
          Blocks(r) > 0 =>
              /\ Blocks(r) = 1
              /\ pc[r] \in {"blocked", "done"}
              /\ Count(log[r], "success") = 0
              /\ Count(log[r], "failed") = (IF pc[r] = "done" THEN 1 ELSE 0)
    /\ (\A r \in Req : ~InFlight(r)) =>
          redirects_blocked + delays_blocked + bytes_blocked + dangerous_urls_blocked
              <= failed_requests

(* C10 witness: nothing is in flight, one request was blocked, and      *)
(* another failed without any block counter.                            *)
C10_Witness ==
    /\ \A r \in Req : ~InFlight(r)
    /\ redirects_blocked + delays_blocked + bytes_blocked + dangerous_urls_blocked = 1
    /\ failed_requests = 2

(* The requests dropped by their caller while suspended. *)
Aborted == {r \in Req : pc[r] = "aborted"}

(* C11: a handle_delay request dropped during its sleep has made         *)
(* increment_total and record_endpoint (its key is in the table) and     *)
(* makes neither increment_success nor increment_failed; total_requests  *)
(* exceeds successful_requests + failed_requests by at least the number  *)
(* of aborted requests, and by exactly that number once every other      *)
(* request has returned.                                                 *)
C11_AbortedDelay ==
    /\ \A r \in Aborted :
          /\ handler[r] = "handle_delay"
          /\ log[r] = <<"total", "record", "guard", "sleep_begin", "abort">>
          /\ EndpointKey(handler[r], arg[r]) \in DOMAIN endpoint_stats
          /\ endpoint_stats[EndpointKey(handler[r], arg[r])] >= 1
    /\ total_requests >= successful_requests + failed_requests + Cardinality(Aborted)
    /\ (\A r \in Req : pc[r] \in {"done", "aborted"}) =>
          total_requests = successful_requests + failed_requests + Cardinality(Aborted)

(* C11 witness: one request was dropped in its sleep, the other         *)
(* returned, and the total is ahead of the outcomes by one.             *)
C11_Witness ==
    /\ Cardinality(Aborted) = 1
    /\ \E r \in Req : pc[r] = "done" /\ handler[r] = "handle_delay"
    /\ total_requests = successful_requests + failed_requests + 1
    /\ total_requests = NReq
(* The handlers that consult no guardrail. *)
Unguarded ==
    Handlers \ { "handle_delay", "handle_redirect", "handle_absolute_redirect",
                 "handle_redirect_to", "handle_bytes", "handle_stream" }

(* The unguarded handlers that call increment_failed on no path. *)
AlwaysSuccessful ==
    SimpleHandlers \cup {"handle_metrics", "handle_cookies_set", "handle_cookies_delete"}

RecordedKeys ==
    {EndpointKey(handler[r], arg[r]) : r \in {q \in Req : Has(q, "record")}}

RecordedTable ==
    [k \in RecordedKeys |->
        Cardinality({r \in Req : Has(r, "record") /\ EndpointKey(handler[r], arg[r]) = k})]

(* The snapshot get_stats returned to request r, and the live values. *)
SnapshotFields ==
    { "total_requests", "successful_requests", "failed_requests",
      "redirects_blocked", "delays_blocked", "bytes_blocked",
      "dangerous_urls_blocked", "endpoint_stats" }

Snapshot(r) == [f \in SnapshotFields |-> stats[r][f]]

Live ==
    [ total_requests |-> total_requests,
      successful_requests |-> successful_requests,
      failed_requests |-> failed_requests,
      redirects_blocked |-> redirects_blocked,
      delays_blocked |-> delays_blocked,
      bytes_blocked |-> bytes_blocked,
      dangerous_urls_blocked |-> dangerous_urls_blocked,
      endpoint_stats |-> endpoint_stats ]

(* get_stats has returned to request r. *)
Produced(r) == handler[r] = "handle_metrics" /\ pc[r] \in {"stats_read", "done"}

Min(a, b) == IF a <= b THEN a ELSE b
Max(a, b) == IF a >= b THEN a ELSE b

(* C13: get_stats changes no counter and no table entry (every counter  *)
(* and the table hold exactly what the increment_* and record_endpoint  *)
(* calls put there, however many snapshots were taken); two snapshots   *)
(* with no Metrics call between the first read of the earlier and the   *)
(* last read of the later are equal, and a snapshot taken with no       *)
(* Metrics call since its first read equals the live values.            *)
C13_SnapshotPure ==
    /\ Accounted
    /\ endpoint_stats = RecordedTable
    /\ \A r, q \in Req :
          (/\ Produced(r) /\ Produced(q)
           /\ Min(stats[r].began, stats[q].began) = Max(stats[r].ended, stats[q].ended))
          => Snapshot(r) = Snapshot(q)
    /\ \A r \in Req :
          (Produced(r) /\ stats[r].began = Mutations) => Snapshot(r) = Live

(* C13 witness: two /metrics requests have each taken a snapshot with   *)
(* no Metrics call in between, after both were counted and recorded.    *)
C13_Witness ==
    /\ \A r \in Req : Produced(r) /\ pc[r] = "stats_read"
    /\ \A r \in Req : stats[r].began = Mutations
    /\ \A r \in Req : stats[r].total_requests = NReq
    /\ \A r \in Req : stats[r].endpoint_stats["/metrics"] = NReq
(* Request r was answered with a guardrail rejection. *)
GuardRejected(r) ==
    /\ pc[r] = "done"
    /\ Has(r, "guard")
    /\ Has(r, "failed")
    /\ resp[r].status = 400

(* C14: every guardrail rejection response (redirect depth, delay,       *)
(* byte count, stream lines, dangerous URL scheme, URL length) carries  *)
(* both the limit that was exceeded and the requested value.            *)
C14_RejectionCarriesLimitAndRequested ==
    \A r \in Req :
        GuardRejected(r) =>
            /\ resp[r].limit # None
            /\ resp[r].requested # None
(* The URLs of Urls whose trimmed text is longer than MAX_URL_LEN. *)
LongUrls == {11, 12}

(* Request r asks for what the two guards without a block counter       *)
(* refuse: more than MAX_LINES lines, or a URL longer than MAX_URL_LEN. *)
UncountedRejection(r) ==
    \/ handler[r] = "handle_stream" /\ arg[r] > MAX_LINES
    \/ handler[r] = "handle_redirect_to" /\ arg[r] \in LongUrls

(* C15: a /stream request for more than 100 lines and a /redirect-to    *)
(* request whose URL is longer than 2048 are answered 400 having        *)
(* incremented failed_requests exactly once and neither                 *)
(* successful_requests nor any of the four block counters, which hold   *)
(* only what the other requests added.                                  *)
C15_UncountedRejections ==
    /\ Accounted
    /\ \A r \in Req :
          UncountedRejection(r) =>
              /\ Blocks(r) = 0
              /\ Count(log[r], "success") = 0
              /\ Count(log[r], "failed") <= 1
              /\ pc[r] \in {"idle", "record", "body", "done"}
              /\ pc[r] = "done" =>
                    /\ log[r] = <<"total", "record", "guard", "failed">>
                    /\ resp[r].status = 400
                    /\ resp[r].error =
                          Some(IF handler[r] = "handle_stream"
                               THEN "Too many lines requested" ELSE "URL too long")

(* C15 witness: both kinds of rejection have been answered; failed is 2 *)
(* and every block counter and successful_requests are still 0.         *)
C15_Witness ==
    /\ \E r \in Req : handler[r] = "handle_stream" /\ UncountedRejection(r) /\ pc[r] = "done"
    /\ \E r \in Req : handler[r] = "handle_redirect_to" /\ UncountedRejection(r) /\ pc[r] = "done"
    /\ failed_requests = 2
    /\ successful_requests = 0
    /\ redirects_blocked + delays_blocked + bytes_blocked + dangerous_urls_blocked = 0
(* C16: in every reachable state the endpoint table has at most as many *)
(* keys as the Router has routes, whatever path parameters were sent.   *)
C16_KeysBoundedByRoutes ==
    Cardinality(DOMAIN endpoint_stats) <= NRoutes
(* No step removes a key of the table or lowers its count. *)
TableGrows ==
    \A k \in DOMAIN endpoint_stats :
        /\ k \in DOMAIN endpoint_stats'
        /\ endpoint_stats'[k] >= endpoint_stats[k]

(* C17: under concurrent record_endpoint calls with equal or different  *)
(* keys the table holds exactly the recorded keys, each with the number *)
(* of calls made for it (so a first call leaves 1), and no step removes *)
(* an entry or lowers a count.                                          *)
C17_NoLostRecord ==
    /\ [](/\ DOMAIN endpoint_stats = RecordedKeys
          /\ \A k \in RecordedKeys :
                /\ endpoint_stats[k] = RecordedTable[k]
                /\ endpoint_stats[k] >= 1)
    /\ [][TableGrows]_vars

(* C17 witness: all requests recorded the same key and it counts them   *)
(* all, while none has returned yet.                                    *)
C17_Witness ==
    /\ \A r \in Req : pc[r] = "body" /\ handler[r] = "handle_get"
    /\ endpoint_stats["/get"] = NReq
(* A request refused by a guard that has no block counter. *)
FailedOnly(r) ==
    /\ Count(log[r], "failed") = 1
    /\ Count(log[r], "success") = 0
    /\ Blocks(r) = 0

(* The outcome a returned request has with a healthy lock, by handler   *)
(* and input.                                                           *)
NormalOutcome(r) ==
    CASE handler[r] = "handle_delay" ->
            IF arg[r] > MAX_DELAY
            THEN RejectedWith(r, "delays_blocked") /\ resp[r].status = 400
            ELSE Allowed(r) /\ resp[r].status = 200
      [] handler[r] \in {"handle_redirect", "handle_absolute_redirect"} ->
            IF arg[r] > MAX_REDIRECTS
            THEN RejectedWith(r, "redirects_blocked") /\ resp[r].status = 400
            ELSE Allowed(r)
      [] handler[r] = "handle_bytes" ->
            IF arg[r] > MAX_BYTES
            THEN RejectedWith(r, "bytes_blocked") /\ resp[r].status = 400
            ELSE Allowed(r) /\ resp[r].status = 200
      [] handler[r] = "handle_stream" ->
            IF arg[r] > MAX_LINES
            THEN FailedOnly(r) /\ resp[r].status = 400
            ELSE Allowed(r) /\ resp[r].status = 200
      [] handler[r] = "handle_redirect_to" ->
            IF arg[r] \in DangerousUrls
            THEN RejectedWith(r, "dangerous_urls_blocked") /\ resp[r].status = 400
            ELSE IF arg[r] \in LongUrls
            THEN FailedOnly(r) /\ resp[r].status = 400
            ELSE Allowed(r) /\ resp[r].status = 302
      [] OTHER ->
            /\ Count(log[r], "success") + Count(log[r], "failed") = 1
            /\ Has(r, "success") <=> resp[r].status \in 200..299
            /\ Blocks(r) = 0

(* Every request that entered is counted once in total_requests, the    *)
(* counters hold the calls made, and every returned request made both   *)
(* entry calls and has its normal outcome.                              *)
NormalOutcomes ==
    /\ Accounted
    /\ total_requests = Cardinality({r \in Req : pc[r] # "idle"})
    /\ \A r \in Req :
          pc[r] = "done" =>
              /\ SubSeq(log[r], 1, 2) = <<"total", "record">>
              /\ NormalOutcome(r)

(* record_endpoint called by r on the poisoned lock: it returns to the  *)
(* handler, having written nothing.                                     *)
RecordSkipped(r) ==
    (poisoned /\ pc[r] = "record" /\ pc'[r] # "record") =>
        /\ pc'[r] = "body"
        /\ log'[r] = log[r] \o <<"record">>
        /\ UNCHANGED << counters, endpoint_stats, poisoned >>

(* get_stats called by r on the poisoned lock: the snapshot's table is  *)
(* empty and the counter loads follow.                                  *)
SnapshotDegraded(r) ==
    (poisoned /\ handler[r] = "handle_metrics" /\ pc[r] = "body" /\ pc'[r] # "body") =>
        /\ pc'[r] = "load_total"
        /\ stats'[r].endpoint_stats = EmptyMap
        /\ UNCHANGED << counters, endpoint_stats, poisoned >>

(* C18: once the endpoint_stats lock is poisoned, record_endpoint skips *)
(* its update (no step changes the table any more) and returns to the   *)
(* handler, get_stats returns a snapshot whose endpoint mapping is      *)
(* empty, and every request is counted in total_requests and reaches    *)
(* the outcome it has with a healthy lock.                              *)
C18_PoisonedLockSkipped ==
    /\ [][poisoned => (poisoned' /\ endpoint_stats' = endpoint_stats)]_vars
    /\ [][\A r \in Req : RecordSkipped(r) /\ SnapshotDegraded(r)]_vars
    /\ []NormalOutcomes
    /\ [](\A r \in Req :
            (handler[r] = "handle_metrics" /\ pc[r] = "done") =>
                (Has(r, "success") /\ resp[r].status = 200))

(* C18 witness: the first request poisoned the lock; the second, a      *)
(* /metrics request, was counted, skipped its recording, got a snapshot *)
(* with both requests in total_requests and an empty endpoint mapping,  *)
(* and returned a success.                                              *)
C18_Witness ==
    /\ poisoned
    /\ endpoint_stats = EmptyMap
    /\ \E r \in Req :
          /\ handler[r] = "handle_metrics"
          /\ pc[r] = "done"
          /\ log[r] = <<"total", "record", "success">>
          /\ stats[r].total_requests = 2
          /\ stats[r].endpoint_stats = EmptyMap
(* No counter is lower after a step than before it. *)
CountersGrow ==
    /\ total_requests' >= total_requests
    /\ successful_requests' >= successful_requests
    /\ failed_requests' >= failed_requests
    /\ redirects_blocked' >= redirects_blocked
    /\ delays_blocked' >= delays_blocked
    /\ bytes_blocked' >= bytes_blocked
    /\ dangerous_urls_blocked' >= dangerous_urls_blocked

(* C19: each of the seven counters is a natural number in every         *)
(* reachable state and no step of any request lowers one.               *)
C19_CountersMonotone ==
    /\ [](\A i \in DOMAIN counters : counters[i] \in Nat)
    /\ [][CountersGrow]_vars

(* C19 witness: a rejected and an allowed request have returned and     *)
(* raised total, successful, failed and one block counter.              *)
C19_Witness ==
    /\ total_requests = 2
    /\ successful_requests = 1
    /\ failed_requests = 1
    /\ redirects_blocked + delays_blocked + bytes_blocked + dangerous_urls_blocked = 1
(* Request r is a /delay request within the limit. *)
AllowedDelay(r) == handler[r] = "handle_delay" /\ arg[r] <= MAX_DELAY

(* While a request is suspended in its sleep, every request that has    *)
(* not arrived yet or is in flight can take its next step: nothing it   *)
(* needs is held by the sleeper.                                        *)
NonBlocking ==
    (\E r \in Req : pc[r] = "sleeping") =>
        \A q \in Req : (pc[q] = "idle" \/ InFlight(q)) => ENABLED StepDelay(q)

(* C20 as stated, in the form a finite run refutes: a suspended delay   *)
(* request blocks no other request, and every allowed delay request     *)
(* completes with increment_success, so none has ended without it.      *)
C20_DelayAlwaysCompletes ==
    /\ NonBlocking
    /\ \A r \in Req :
          (AllowedDelay(r) /\ pc[r] \notin {"idle", "record", "body", "sleeping", "woken"})
              => Has(r, "success")

(* C20 amended: a suspended delay request blocks no other request, and  *)
(* every request in flight (other delay requests and /metrics included) *)
(* eventually ends; an allowed delay request that has suspended         *)
(* eventually either is dropped by its caller or returns 200 having     *)
(* incremented successful_requests.                                     *)
C20_DelayDoesNotBlock ==
    /\ []NonBlocking
    /\ \A r \in Req : InFlight(r) ~> ~InFlight(r)
    /\ \A r \in Req :
          (AllowedDelay(r) /\ pc[r] = "sleeping")
              ~> (\/ pc[r] = "aborted"
                  \/ pc[r] = "done" /\ Allowed(r) /\ resp[r].status = 200)

(* C20 witness: a /metrics request ran to completion and saw the key of *)
(* an allowed delay request that is still suspended.                    *)
C20_Witness ==
    \E r, q \in Req :
        /\ AllowedDelay(r) /\ pc[r] = "sleeping"
        /\ handler[q] = "handle_metrics" /\ pc[q] = "done"
        /\ EndpointKey(handler[r], arg[r]) \in DOMAIN stats[q].endpoint_stats
        /\ successful_requests = 1
(* The URLs of Urls without a scheme, and those naming the http or the  *)
(* https scheme (in any case; some with blanks around them).            *)
NoSchemeUrls == {6, 10}
HttpUrls == {7, 8, 13}

http_prefix == <<"h","t","t","p",":","/","/">>

(* C21: an allowed /redirect-to answers 302 with a Location that is     *)
(* "http://" followed by the trimmed URL when the URL carries no scheme *)
(* ("example.com" gives "http://example.com"), and the trimmed URL      *)
(* itself when it already names the http or the https scheme.           *)
C21_EffectiveTarget ==
    \A r \in Req :
        (handler[r] = "handle_redirect_to" /\ pc[r] = "done") =>
            /\ arg[r] \in NoSchemeUrls =>
                  /\ resp[r].status = 302
                  /\ resp[r].location = Some(http_prefix \o Urls[arg[r]])
            /\ arg[r] = 6 =>
                  Join(resp[r].location[1]) = "http://example.com"
            /\ arg[r] = 7 =>
                  resp[r].location = Some(<<"h","t","t","p",":","/","/","a">>)
            /\ arg[r] \in HttpUrls \ {7} =>
                  /\ resp[r].status = 302
                  /\ resp[r].location = Some(Urls[arg[r]])
(* The /basic-auth requests that have called record_endpoint. *)
BasicAuthRecorded == {r \in Req : handler[r] = "handle_basic_auth" /\ Has(r, "record")}

(* C22: every /basic-auth request of user u records the key             *)
(* "/basic-auth/u/***" whatever its password path parameter and its     *)
(* Authorization header, so requests that differ only in those share    *)
(* one key, and the table has no other key for them: neither the        *)
(* password nor the header's text is part of any key.                   *)
C22_NoCredentialInKey ==
    /\ \A r \in BasicAuthRecorded :
          /\ EndpointKey(handler[r], arg[r]) = "/basic-auth/u/***"
          /\ "/basic-auth/u/***" \in DOMAIN endpoint_stats
    /\ \A r, q \in BasicAuthRecorded :
          arg[r].user = arg[q].user =>
              EndpointKey(handler[r], arg[r]) = EndpointKey(handler[q], arg[q])
    /\ (\A r \in Req : handler[r] = "handle_basic_auth") =>
          /\ DOMAIN endpoint_stats \subseteq {"/basic-auth/u/***"}
          /\ BasicAuthRecorded # {} =>
                endpoint_stats["/basic-auth/u/***"] = Cardinality(BasicAuthRecorded)

(* C22 witness: two requests for the same user, with different          *)
(* passwords in the path, one with and one without an Authorization     *)
(* header, have both been recorded under the one key.                   *)
C22_Witness ==
    /\ \A r \in Req : r \in BasicAuthRecorded
    /\ \E r, q \in Req :
          /\ arg[r].password # arg[q].password
          /\ arg[r].authorization # arg[q].authorization
    /\ DOMAIN endpoint_stats = {"/basic-auth/u/***"}
    /\ endpoint_stats["/basic-auth/u/***"] = NReq

(* The client of the chain has its answer and no redirect to follow. *)
ChainEnded == pc[1] = "done" /\ ~ENABLED follow(1)

(* C23: /redirect/n and /absolute-redirect/n with 2 <= n <= 10 answer   *)
(* with one redirect to depth n - 1, and n <= 1 with the base resource  *)
(* /get; a client following the redirects from an allowed n makes at    *)
(* most 10 hops, none of which is rejected, each hop is one request     *)
(* counted with one success, and where the chain ends the client is at  *)
(* the base resource.                                                   *)
C23_RedirectChain ==
    /\ total_requests <= MAX_REDIRECTS + 1
    /\ failed_requests = 0
    /\ redirects_blocked = 0
    /\ pc[1] = "done" =>
          /\ successful_requests = total_requests
          /\ log[1] = <<"total", "record", "guard", "success">>
          /\ arg[1] >= 2 =>
                /\ resp[1].status = 302
                /\ \E t \in ChainRequests :
                      /\ t.h = handler[1]
                      /\ t.n = arg[1] - 1
                      /\ routes_to(resp[1].location[1], t)
    /\ ChainEnded => handler[1] = "handle_get"

(* The positions of get_stats in the order of its reads, and the field  *)
(* each read fills and the live value it takes.                         *)
ReadOrder ==
    << "body", "load_total", "load_successful", "load_failed", "load_redirects",
       "load_delays", "load_bytes", "load_dangerous", "stats_read" >>

ReadField ==
    << "endpoint_stats", "total_requests", "successful_requests", "failed_requests",
       "redirects_blocked", "delays_blocked", "bytes_blocked", "dangerous_urls_blocked" >>

(* A step of request r inside get_stats is the next read in source      *)
(* order: it copies the live value of its own field into the snapshot,  *)
(* keeps the fields read before, and writes nothing shared.             *)
OneReadAtATime(r) ==
    \A i \in DOMAIN ReadField :
        (handler[r] = "handle_metrics" /\ pc[r] = ReadOrder[i] /\ pc'[r] # pc[r]) =>
            /\ pc'[r] = ReadOrder[i + 1]
            /\ stats'[r][ReadField[i]] = Live[ReadField[i]]
            /\ \A j \in DOMAIN ReadField :
                  j # i => stats'[r][ReadField[j]] = stats[r][ReadField[j]]
            /\ UNCHANGED << counters, endpoint_stats >>

(* C24: get_stats is a sequence of separate reads (the table, then each *)
(* counter in turn, each taking the live value of its moment), other    *)
(* requests run between them, and so a returned snapshot can hold       *)
(* values the live counters never held together: the live counters      *)
(* always have successful + failed <= total, a snapshot need not (see   *)
(* the witness).                                                        *)
C24_SnapshotNotAtomic ==
    /\ [][\A r \in Req : OneReadAtATime(r)]_vars
    /\ [](successful_requests + failed_requests <= total_requests)
    /\ [](\A r \in Req :
            Produced(r) =>
                /\ stats[r].total_requests <= total_requests
                /\ stats[r].successful_requests <= successful_requests
                /\ stats[r].failed_requests <= failed_requests)

(* C24 witness: a returned snapshot with successful_requests +          *)
(* failed_requests > total_requests: two /get requests arrived and      *)
(* returned after the snapshot's total_requests was read and before its *)
(* successful_requests was.                                             *)
C24_Witness ==
    \E r \in Req :
        /\ Produced(r)
        /\ pc[r] = "done"
        /\ stats[r].successful_requests + stats[r].failed_requests
              > stats[r].total_requests
(* The payload of the /bytes/n request r, as handle_bytes builds it. *)
Payload(r) == bytes(arg[r])

(* C25: for every allowed byte count n (0 <= n <= 100000) handle_bytes  *)
(* answers 200 with a payload of exactly n bytes whose byte of index i  *)
(* is i mod 256, for every i < n.                                       *)
C25_BytesPayload ==
    \A r \in Req :
        (handler[r] = "handle_bytes" /\ pc[r] = "done" /\ arg[r] <= MAX_BYTES) =>
            /\ resp[r].status = 200
            /\ resp[r].payload = Some(Len(Payload(r)))
            /\ Len(Payload(r)) = arg[r]
            /\ \A i \in 0..(arg[r] - 1) : Payload(r)[i + 1] = i % 256

(* C25 witness: /bytes/100000 was served with its 100000 bytes, the     *)
(* last one of index 99999 being 99999 mod 256 = 159.                   *)
C25_Witness ==
    /\ handler[1] = "handle_bytes" /\ pc[1] = "done" /\ arg[1] = MAX_BYTES
    /\ resp[1].status = 200
    /\ resp[1].payload = Some(100000)
    /\ Payload(1)[100000] = 159
    /\ Payload(1)[257] = 0
(* The sum of the counts of an endpoint table. *)
RECURSIVE SumOver(_, _)
SumOver(m, keys) ==
    IF keys = {} THEN 0
    ELSE LET k == CHOOSE j \in keys : TRUE
         IN  m[k] + SumOver(m, keys \ {k})

TableSum(m) == SumOver(m, DOMAIN m)

(* The requests between their increment_total and their record_endpoint. *)
Unrecorded == {r \in Req : pc[r] = "record"}

(* C26: while the lock of the table was never poisoned, the counts of   *)
(* endpoint_stats sum to at most total_requests, and to exactly         *)
(* total_requests whenever no request is between its increment_total    *)
(* and its record_endpoint call.                                        *)
C26_TableSumBoundedByTotal ==
    ~poisoned =>
        /\ TableSum(endpoint_stats) <= total_requests
        /\ Unrecorded = {} => TableSum(endpoint_stats) = total_requests
        /\ TableSum(endpoint_stats) = total_requests - Cardinality(Unrecorded)

(* C26 witness: one request has recorded its endpoint and returned, a   *)
(* second has incremented total_requests and not yet recorded: the sum  *)
(* is 1 below a total of 2.                                             *)
C26_Witness ==
    \E r, q \in Req :
        /\ ~poisoned
        /\ pc[r] = "done" /\ Has(r, "record")
        /\ pc[q] = "record"
        /\ total_requests = 2
        /\ TableSum(endpoint_stats) = 1

(* C27: in every snapshot get_stats returned, also one taken while      *)
(* other requests ran, the counts of its endpoint_stats sum to at most  *)
(* its total_requests; the same holds from the moment its               *)
(* total_requests was loaded.                                           *)
C27_SnapshotTableBoundedByTotal ==
    \A r \in Req :
        (/\ handler[r] = "handle_metrics"
         /\ pc[r] \notin {"idle", "record", "body", "load_total", "panicked"}) =>
            TableSum(stats[r].endpoint_stats) <= stats[r].total_requests

(* C27 witness: a returned snapshot taken beside another request that   *)
(* incremented total_requests after the table was cloned and before     *)
(* total_requests was loaded: a table of sum 1 with a total of 2.       *)
C27_Witness ==
    \E r, q \in Req :
        /\ Produced(r)
        /\ q # r /\ handler[q] # "none"
        /\ stats[r].began < stats[r].ended
        /\ TableSum(stats[r].endpoint_stats) = 1
        /\ stats[r].total_requests = 2
====
